---- MODULE Spec2Model ----
(***************************************************************************)
(* gulp-mustache-layout: the template chain (load / wrap / done), the      *)
(* scoped variable bindings (mergedVars / effectiveVars), the single       *)
(* render step with its partial loader, the stream's _transform, and       *)
(* reload.  Spec builds a chain and sends entries through it; SpecPipe     *)
(* pipes several entries through a stream while a partial is rewritten;    *)
(* SpecChain calls load, wrap, done and reload on any node; SpecReload     *)
(* reloads the nodes of a chain while the files of a layout change.        *)
(*                                                                         *)
(* Text is a sequence of lexemes.  A lexeme is one plain character or one  *)
(* whole mustache tag; the expansion primitive (Mustache.render, not part  *)
(* of this repository) copies plain lexemes, replaces a variable tag by    *)
(* the bound value and a partial tag by the expansion of the text the      *)
(* partial loader returns.  Names (file names, keys, partial names) are    *)
(* sequences of atoms, so that prefixes (`_`, `./`) can be inspected.      *)
(***************************************************************************)
EXTENDS Integers, Sequences, FiniteSets, TLC

VARIABLES
    globalOptions,  \* GulpMustacheLayout.globalOptions
    disk,           \* the file system: path -> file
    nodes,          \* arena of Template objects; a handle is an index, 0 is null
    stream,         \* the RenderStream made by done(): [made, parent, options]
    out,            \* entries pushed downstream, in order
    errors,         \* 'error' events emitted by the stream, in order
    last            \* the latest _transform call (or load, wrap, reload call of
                    \* the chain interface), what it gave, the disk it ran on

vars == <<globalOptions, disk, nodes, stream, out, errors, last>>

(***************************************************************************)
(* Bounds                                                                  *)
(***************************************************************************)
MaxDepth == 3          \* layouts of the chain handed to done()
MaxEntries == 1        \* entries sent through the stream
MaxPartialDepth == 2   \* nesting of partials inside partials
MaxPiped == 2          \* entries piped through a stream that is already made
MaxNodes == 3          \* nodes built by load and wrap calls in any order

(***************************************************************************)
(* Lexemes and names                                                       *)
(***************************************************************************)
Chr(c)        == [k |-> "chr",     a |-> <<c>>, b |-> <<>>]
VarTag(n)     == [k |-> "var",     a |-> n,     b |-> <<>>]
DotTag(s, n)  == [k |-> "dot",     a |-> s,     b |-> n]
PartialTag(n) == [k |-> "partial", a |-> n,     b |-> <<>>]
KV(key, val)  == [k |-> "kv",      a |-> key,   b |-> <<val>>]
Junk          == [k |-> "junk",    a |-> <<>>,  b |-> <<>>]

YIELD == <<"yield">>
MUSTACHE == ".mustache"
TOML == ".toml"
HTM == ".htm"

Yield == PartialTag(YIELD)

P(d, n, e) == [dir |-> d, name |-> n, ext |-> e]

StartsWith(name, atom) == Len(name) > 0 /\ name[1] = atom

(***************************************************************************)
(* Variable objects: a flat object maps keys to strings; a view maps keys  *)
(* to strings or to flat objects (the scopes).                             *)
(***************************************************************************)
EmptyObj == [n \in {} |-> <<>>]

Str(s) == [isObj |-> FALSE, str |-> s, obj |-> EmptyObj]
Obj(o) == [isObj |-> TRUE,  str |-> <<>>, obj |-> o]

\* Object.assign({}, a, b)
Assign(a, b) == [n \in (DOMAIN a) \cup (DOMAIN b) |-> IF n \in DOMAIN b THEN b[n] ELSE a[n]]

\* variant: a key that is already there keeps its value
PutIfAbsent(res, key, value) ==
    [n \in (DOMAIN res) \cup {key} |-> IF n \in DOMAIN res THEN res[n] ELSE value]

\* res[key] = value
Put(res, key, value) == [n \in (DOMAIN res) \cup {key} |-> IF n = key THEN value ELSE res[n]]

(***************************************************************************)
(* Options.  An option that was not given is marked absent, so that        *)
(* Object.assign keeps the value of the object assigned before.            *)
(***************************************************************************)
NoScope      == [st |-> "absent", v |-> <<>>]
NullScope    == [st |-> "null",   v |-> <<>>]
ScopeStr(n)  == [st |-> "str",    v |-> n]
NoVars       == [set |-> FALSE, v |-> EmptyObj]
SomeVars(o)  == [set |-> TRUE,  v |-> o]
NoName       == [set |-> FALSE, v |-> <<>>]
SomeName(n)  == [set |-> TRUE,  v |-> n]
NoExt        == [set |-> FALSE, v |-> ""]
SomeExt(e)   == [set |-> TRUE,  v |-> e]

NoOptions == [varLoader |-> FALSE, vars |-> NoVars, scopeName |-> NoScope,
              outputName |-> NoName, outputExtension |-> NoExt]

\* Object.assign({}, a, b) on option objects
AssignOptions(a, b) ==
    [varLoader       |-> a.varLoader \/ b.varLoader,
     vars            |-> IF b.vars.set THEN b.vars ELSE a.vars,
     scopeName       |-> IF b.scopeName.st # "absent" THEN b.scopeName ELSE a.scopeName,
     outputName      |-> IF b.outputName.set THEN b.outputName ELSE a.outputName,
     outputExtension |-> IF b.outputExtension.set THEN b.outputExtension ELSE a.outputExtension]

(***************************************************************************)
(* File system                                                             *)
(***************************************************************************)
\* FS.readFileSync(path).toString()
readFileSync(d, path) ==
    IF path \notin DOMAIN d THEN [ok |-> FALSE, code |-> "ENOENT", text |-> <<>>]
    ELSE IF d[path].st # "ok" THEN [ok |-> FALSE, code |-> "EACCES", text |-> <<>>]
    ELSE [ok |-> TRUE, code |-> "", text |-> d[path].text]

\* the varLoader of the README: the variable file sits next to the template
varLoaderPath(info) == P(info.dir, info.name, TOML)

\* varLoader.parser: every line of the file must be a key/value pair
RECURSIVE parseLines(_, _)
parseLines(text, acc) ==
    IF text = <<>> THEN acc
    ELSE parseLines(Tail(text), Put(acc, Head(text).a, <<Chr(Head(text).b[1])>>))

varLoaderParser(text) ==
    IF \E i \in 1..Len(text) : text[i].k # "kv"
    THEN [ok |-> FALSE, v |-> EmptyObj]
    ELSE [ok |-> TRUE, v |-> parseLines(text, EmptyObj)]

Ok(v)    == [ok |-> TRUE,  err |-> "",  v |-> v]
Throw(e) == [ok |-> FALSE, err |-> e,   v |-> <<>>]

\* the try / catch around the read of the template file
contentsRead(r) == IF r.ok THEN Ok(r.text) ELSE Throw("ReadFile")

LoadContents(d, path) == contentsRead(readFileSync(d, path))

\* the try / catch around the call of the parser
varsParsed(x) == IF x.ok THEN Ok(x.v) ELSE Throw("VarReader")

\* the try / catch around the read of the variable file
varsRead(r) ==
    IF ~r.ok
    THEN IF r.code = "ENOENT" THEN Ok(EmptyObj) ELSE Throw("ReadVarFile")
    ELSE varsParsed(varLoaderParser(r.text))

LoadVars(d, path, options) ==
    IF options.varLoader
    THEN varsRead(readFileSync(d, varLoaderPath(path)))
    ELSE Ok(EmptyObj)

(***************************************************************************)
(* Template: a node is [path, parent, effectiveOptions, templateContents,  *)
(* loadedVars]; parent is a handle into the arena, 0 for null.             *)
(***************************************************************************)
Template(path, parent, effectiveOptions, templateContents, loadedVars) ==
    [path |-> path, parent |-> parent, effectiveOptions |-> effectiveOptions,
     templateContents |-> templateContents, loadedVars |-> loadedVars]

mergedVars(t) == Assign(t.loadedVars, t.effectiveOptions.vars.v)

\* variant: the merge is made into the loaded variables of the node
storedMerged(t, merged) == [t EXCEPT !.loadedVars = merged]

\* Object.assign({}, this.loadedVars, ...): the target of the merge is a
\* fresh object, the node is as it was
stored(t, merged) == t

\* the nodes after effectiveVars has merged the variables of t and of each
\* of its ancestors
RECURSIVE touchChain(_, _)
touchChain(arena, t) ==
    IF t = 0 THEN arena
    ELSE touchChain([arena EXCEPT ![t] = stored(arena[t], mergedVars(arena[t]))],
                    arena[t].parent)

\* let res = this.mergedVars()
ownView(own) == [n \in DOMAIN own |-> Str(own[n])]

\* variant: the scope name option is ignored
scopeKeyFileName(p) == p.path.name

\* p.effectiveOptions.scopeName ?? p.path.info.name
scopeKey(p) ==
    IF p.effectiveOptions.scopeName.st = "str"
    THEN p.effectiveOptions.scopeName.v
    ELSE p.path.name

\* variant: a parent whose scope is null is exposed like the others
RECURSIVE inheritAll(_, _, _)
inheritAll(arena, res, p) ==
    IF p = 0 THEN res
    ELSE inheritAll(arena, Put(res, scopeKey(arena[p]), Obj(mergedVars(arena[p]))),
                    arena[p].parent)

\* variant: the variables of a parent join the view under their own names
RECURSIVE inheritFlat(_, _, _)
inheritFlat(arena, res, p) ==
    IF p = 0 THEN res
    ELSE inheritFlat(arena, Assign(ownView(mergedVars(arena[p])), res), arena[p].parent)

\* the loop of effectiveVars: from handle p outward, each ancestor whose
\* scope is not null is assigned under its scope key
RECURSIVE inherit(_, _, _)
inherit(arena, res, p) ==
    IF p = 0 THEN res
    ELSE inherit(arena,
                 IF arena[p].effectiveOptions.scopeName.st # "null"
                 THEN Put(res, scopeKey(arena[p]), Obj(mergedVars(arena[p])))
                 ELSE res,
                 arena[p].parent)

effectiveVars(arena, t) == inherit(arena, ownView(mergedVars(t)), t.parent)

(***************************************************************************)
(* renderStep and its partial loader                                       *)
(***************************************************************************)
None    == [some |-> FALSE, text |-> <<>>]
Some(t) == [some |-> TRUE,  text |-> t]

\* variant: the yield of a step without wrapped content is not refused
truthyAlways(yieldContents) == TRUE

\* if(yieldContents): null and the empty string are both falsy
truthy(yieldContents) == yieldContents.some /\ yieldContents.text # <<>>

\* Path.resolve(this.path.info.dir, name + '.mustache')
resolvePartial(dir, name) ==
    P(dir, IF StartsWith(name, "./") THEN Tail(name) ELSE name, MUSTACHE)

\* FS.readFileSync(path).toString() of a partial: the error is not a PluginError
partialRead(r) == IF r.ok THEN Ok(r.text) ELSE Throw("Error")

loadPartial(d, t, yieldContents, name) ==
    IF name = YIELD
    THEN IF truthy(yieldContents) THEN Ok(yieldContents.text) ELSE Throw("NoYield")
    ELSE partialRead(readFileSync(d, resolvePartial(t.path.dir, name)))

\* the value a variable tag is replaced by
lookup(view, tok) ==
    IF tok.a \notin DOMAIN view THEN <<>>
    ELSE IF tok.k = "var"
         THEN IF view[tok.a].isObj THEN <<Chr("[object Object]")>> ELSE view[tok.a].str
         ELSE IF view[tok.a].isObj /\ tok.b \in DOMAIN view[tok.a].obj
              THEN view[tok.a].obj[tok.b]
              ELSE <<>>

\* the lexemes of a text, each with the depth of partials still allowed
withFuel(text, fuel) == [i \in 1..Len(text) |-> [tok |-> text[i], fuel |-> fuel]]

Emit(text)     == [ok |-> TRUE,  err |-> "", emit |-> text, open |-> <<>>]
Open(items)    == [ok |-> TRUE,  err |-> "", emit |-> <<>>, open |-> items]
Abort(e)       == [ok |-> FALSE, err |-> e,  emit |-> <<>>, open |-> <<>>]

\* a partial whose text was loaded is expanded in place
opened(pr, fuel) ==
    IF ~pr.ok THEN Abort(pr.err)
    ELSE IF fuel = 0 THEN Abort("Error")
    ELSE Open(withFuel(pr.v, fuel - 1))

\* one lexeme: the text it emits, or the lexemes of the partial it opens
expand(d, t, yieldContents, view, item) ==
    IF item.tok.k \in {"var", "dot"} THEN Emit(lookup(view, item.tok))
    ELSE IF item.tok.k = "partial"
    THEN opened(loadPartial(d, t, yieldContents, item.tok.a), item.fuel)
    ELSE Emit(<<item.tok>>)

\* Mustache.render(template, view, partials): left to right; the text of a
\* partial is itself expanded, in place, against the same view and loader
RECURSIVE renderTokens(_, _, _, _, _, _)
RECURSIVE renderNext(_, _, _, _, _, _, _)
renderNext(d, t, yieldContents, view, e, rest, acc) ==
    IF ~e.ok THEN Throw(e.err)
    ELSE renderTokens(d, t, yieldContents, view, e.open \o rest, acc \o e.emit)

renderTokens(d, t, yieldContents, view, todo, acc) ==
    IF todo = <<>> THEN Ok(acc)
    ELSE renderNext(d, t, yieldContents, view,
                    expand(d, t, yieldContents, view, Head(todo)), Tail(todo), acc)

\* the catch of renderStep: an error that is not a PluginError is replaced;
\* the result carries the view and the wrapped content of the step
rendered(r, view, yieldContents) ==
    [ok |-> r.ok,
     err |-> IF r.ok \/ r.err = "NoYield" THEN r.err ELSE "RenderError",
     v |-> r.v, view |-> view, wrapped |-> yieldContents]

renderWith(d, t, yieldContents, view) ==
    rendered(renderTokens(d, t, yieldContents, view,
                          withFuel(t.templateContents, MaxPartialDepth), <<>>),
             view, yieldContents)

renderStep(d, arena, t, yieldContents) ==
    renderWith(d, t, yieldContents, effectiveVars(arena, t))

(***************************************************************************)
(* Chain construction                                                      *)
(***************************************************************************)
\* new Template({...}) once the contents c and the variables v are there;
\* the contents are evaluated first, so their error comes first
construct(path, parent, effectiveOptions, c, v) ==
    IF ~c.ok THEN Throw(c.err)
    ELSE IF ~v.ok THEN Throw(v.err)
    ELSE Ok(Template(path, parent, effectiveOptions, c.v, v.v))

\* Template.Load
TemplateLoad(d, parent, path, effectiveOptions) ==
    construct(path, parent, effectiveOptions,
              LoadContents(d, path), LoadVars(d, path, effectiveOptions))

\* if(! inputContents) throw
inputContents(vinyl) ==
    IF vinyl.contents = <<>> THEN Throw("NoContents") ELSE Ok(vinyl.contents)

\* Template.FromVinyl
FromVinyl(d, parent, vinyl, effectiveOptions) ==
    construct(vinyl.path, parent, effectiveOptions,
              inputContents(vinyl), LoadVars(d, vinyl.path, effectiveOptions))

\* variant: a child that has a parent keeps it
wrapKeepParent(this, child) ==
    Template(child.path, IF child.parent = 0 THEN this ELSE child.parent,
             child.effectiveOptions, child.templateContents, child.loadedVars)

\* Template.wrap: a new node with the child's fields and this as parent
wrap(this, child) ==
    Template(child.path, this, child.effectiveOptions, child.templateContents, child.loadedVars)

(***************************************************************************)
(* Template.reload: the two assignments, in order; what a throw leaves     *)
(***************************************************************************)
Reloaded(err, t) == [ok |-> err = "", err |-> err, node |-> t]

\* this.loadedVars = Template.LoadVars(...), on the node whose contents
\* were just assigned
reloadVars(t, v) ==
    IF v.ok THEN Reloaded("", [t EXCEPT !.loadedVars = v.v]) ELSE Reloaded(v.err, t)

\* variant: the contents are assigned only once the variables were loaded
reloadBoth(d, t, c) ==
    IF ~c.ok THEN Reloaded(c.err, t)
    ELSE IF ~LoadVars(d, t.path, t.effectiveOptions).ok
         THEN Reloaded(LoadVars(d, t.path, t.effectiveOptions).err, t)
         ELSE reloadVars([t EXCEPT !.templateContents = c.v],
                         LoadVars(d, t.path, t.effectiveOptions))

\* this.templateContents = Template.LoadContents(this.path), then the variables
reloadContents(d, t, c) ==
    IF ~c.ok THEN Reloaded(c.err, t)
    ELSE reloadVars([t EXCEPT !.templateContents = c.v],
                    LoadVars(d, t.path, t.effectiveOptions))

reload(d, t) == reloadContents(d, t, LoadContents(d, t.path))

(***************************************************************************)
(* RenderStream._transform                                                 *)
(***************************************************************************)
\* file.basename and file.extname
basename(file) == file.path.name \o <<file.path.ext>>
extname(file) == file.path.ext

Step(handle, r) ==
    [node |-> handle, ok |-> r.ok, err |-> r.err, v |-> r.v, view |-> r.view,
     wrapped |-> r.wrapped]

Steps(ok, err, v, steps) == [ok |-> ok, err |-> err, v |-> v, steps |-> steps]

RECURSIVE renderAncestors(_, _, _, _, _)

\* variant: every ancestor is handed the leaf's output, not the previous step's
afterStepStale(d, arena, t, output, steps, r) ==
    IF ~r.ok THEN Steps(FALSE, r.err, <<>>, Append(steps, Step(t, r)))
    ELSE renderAncestors(d, arena, arena[t].parent, output, Append(steps, Step(t, r)))

\* output = t.renderStep(output), and on to t.parent unless the step threw
afterStep(d, arena, t, output, steps, r) ==
    IF ~r.ok THEN Steps(FALSE, r.err, <<>>, Append(steps, Step(t, r)))
    ELSE renderAncestors(d, arena, arena[t].parent, r.v, Append(steps, Step(t, r)))

\* for(let t = this.parent; t; t = t.parent) output = t.renderStep(output)
renderAncestors(d, arena, t, output, steps) ==
    IF t = 0 THEN Steps(TRUE, "", output, steps)
    ELSE afterStep(d, arena, t, output, steps,
                   renderStep(d, arena, arena[t], Some(output)))

\* let output = template.renderStep(null), then the loop
afterLeaf(d, arena, s, r) ==
    IF ~r.ok THEN Steps(FALSE, r.err, <<>>, <<Step(0, r)>>)
    ELSE renderAncestors(d, arena, s.parent, r.v, <<Step(0, r)>>)

renderLeaf(d, arena, s, template) ==
    IF ~template.ok THEN Steps(FALSE, template.err, <<>>, <<>>)
    ELSE afterLeaf(d, arena, s, renderStep(d, arena, template.v, None))

\* the body of the try block
renderEntry(d, arena, s, file) ==
    renderLeaf(d, arena, s, FromVinyl(d, s.parent, file, s.options))

\* variant: a rendered file keeps the path it came with
outputPathSame(s, pathInfo) == pathInfo

\* the path given to a rendered file
outputPath(s, pathInfo) ==
    P(pathInfo.dir,
      IF s.options.outputName.set THEN s.options.outputName.v ELSE pathInfo.name,
      IF s.options.outputExtension.set THEN s.options.outputExtension.v ELSE HTM)

\* variant: a path that returns without calling back
ResultNoCallback(outcome, file, pushed, error, steps) ==
    [outcome |-> outcome, file |-> file, pushed |-> pushed, error |-> error,
     steps |-> steps, callbacks |-> 0]

\* what a path through _transform leaves behind; every path ends in one
\* return callback()
Result(outcome, file, pushed, error, steps) ==
    [outcome |-> outcome, file |-> file, pushed |-> pushed, error |-> error,
     steps |-> steps, callbacks |-> 1]

\* variant: the file is pushed whether or not the render threw
finishPushAlways(s, file, r) ==
    IF r.ok
    THEN Result("rendered",
                [path |-> outputPath(s, file.path), kind |-> "buffer", contents |-> r.v],
                TRUE, "", r.steps)
    ELSE Result("failed", file, TRUE, r.err, r.steps)

\* the end of the try block, or the catch
finish(s, file, r) ==
    IF r.ok
    THEN Result("rendered",
                [path |-> outputPath(s, file.path), kind |-> "buffer", contents |-> r.v],
                TRUE, "", r.steps)
    ELSE Result("failed", file, FALSE, r.err, r.steps)

\* the nodes after the steps of a render: the leaf step already merges the
\* variables of every node of the chain
written(arena, s, steps) == IF steps = <<>> THEN arena ELSE touchChain(arena, s.parent)

isNull(file) == file.kind = "null"

\* variant: a live stream is not told from a buffer
isStreamNever(file) == FALSE

isStream(file) == file.kind = "stream"

\* variant: the partial prefix is not looked at
isPartialNever(file) == FALSE

\* file.basename.startsWith("_")
isPartial(file) == StartsWith(basename(file), "_")

\* variant: the extension is not looked at
notMustacheNever(file) == FALSE

\* file.extname != '.mustache'
notMustache(file) == extname(file) # MUSTACHE

\* variant: the partial and extension tests come before the stream test
transformSkipFirst(d, arena, s, file) ==
    IF isNull(file) THEN Result("null", file, TRUE, "", <<>>)
    ELSE IF isPartial(file) THEN Result("skipped", file, FALSE, "", <<>>)
    ELSE IF notMustache(file) THEN Result("skipped", file, FALSE, "", <<>>)
    ELSE IF isStream(file) THEN Result("stream", file, FALSE, "Stream", <<>>)
    ELSE finish(s, file, renderEntry(d, arena, s, file))

\* what one call of _transform does to the file and to the stream
transform(d, arena, s, file) ==
    IF isNull(file) THEN Result("null", file, TRUE, "", <<>>)
    ELSE IF isStream(file) THEN Result("stream", file, FALSE, "Stream", <<>>)
    ELSE IF isPartial(file) THEN Result("skipped", file, FALSE, "", <<>>)
    ELSE IF notMustache(file) THEN Result("skipped", file, FALSE, "", <<>>)
    ELSE finish(s, file, renderEntry(d, arena, s, file))

(***************************************************************************)
(* The files on disk, and the inputs the actions draw from                 *)
(***************************************************************************)
File(text) == [st |-> "ok", text |-> text]
Denied == [st |-> "denied", text |-> <<>>]

kM == <<"m">>
kS == <<"s">>
kX == <<"x">>

LayoutAM == P("a", kM, MUSTACHE)
LayoutBM == P("b", kM, MUSTACHE)
PageP    == P("a", <<"p">>, MUSTACHE)
PageD    == P("a", <<"d">>, MUSTACHE)
PageJ    == P("a", <<"j">>, MUSTACHE)
PartP    == P("a", <<"_", "p">>, MUSTACHE)
DataP    == P("a", <<"p">>, TOML)
PartialQ == P("a", <<"q">>, MUSTACHE)

\* the working directory of the process, and a partial that sits in it
Cwd      == "c"
CwdQ     == P(Cwd, <<"q">>, MUSTACHE)

DiskPaths == {LayoutAM, LayoutBM, PartialQ, CwdQ,
              varLoaderPath(LayoutAM), varLoaderPath(LayoutBM),
              DataP, varLoaderPath(PageD), varLoaderPath(PageJ)}

Disk0 ==
    [p \in DiskPaths |->
        CASE p = LayoutAM -> File(<<Chr("M"), Yield>>)
          [] p = LayoutBM -> File(<<DotTag(kM, kX), Yield>>)
          [] p = PartialQ -> File(<<Chr("Q")>>)
          [] p = CwdQ -> File(<<Chr("W")>>)
          [] p = varLoaderPath(LayoutAM) -> File(<<KV(kX, "1")>>)
          [] p = varLoaderPath(LayoutBM) -> File(<<KV(kX, "2")>>)
          [] p = DataP -> File(<<KV(kM, "3")>>)
          [] p = varLoaderPath(PageD) -> Denied
          [] p = varLoaderPath(PageJ) -> File(<<Junk>>)]

GlobalChoices ==
    {[NoOptions EXCEPT !.varLoader = TRUE,
                       !.vars = SomeVars([n \in {<<"g">>} |-> <<Chr("G")>>])]}

\* the calls of load: two layouts of the same base name, a layout whose
\* scope is disabled, and one with a scope name and variables of its own
LoadCalls ==
    {[path |-> LayoutAM, options |-> NoOptions],
     [path |-> LayoutBM, options |-> NoOptions],
     [path |-> LayoutAM, options |-> [NoOptions EXCEPT !.scopeName = NullScope]],
     [path |-> LayoutBM,
      options |-> [NoOptions EXCEPT !.scopeName = ScopeStr(kS),
                                    !.vars = SomeVars([n \in {kX} |-> <<Chr("4")>>])]]}

DoneOptions ==
    {NoOptions,
     [NoOptions EXCEPT !.outputName = SomeName(<<"o">>),
                       !.outputExtension = SomeExt(".html"),
                       !.vars = SomeVars([n \in {kM} |-> <<Chr("5")>>])]}

Bodies ==
    {<<Chr("h"), PartialTag(<<"./", "q">>)>>,
     <<Yield>>,
     <<VarTag(kX)>>,
     <<DotTag(kM, kX), VarTag(kM)>>,
     <<>>,
     <<PartialTag(<<"./", "z">>), Yield>>}

Vinyl(path, kind, contents) == [path |-> path, kind |-> kind, contents |-> contents]

Entries ==
    {Vinyl(p, "null", <<>>) : p \in {PageP, DataP}}
    \cup {Vinyl(p, "stream", <<>>) : p \in {PageP, PartP}}
    \cup {Vinyl(PageP, "buffer", b) : b \in Bodies}
    \cup {Vinyl(p, "buffer", <<Chr("h")>>) : p \in {PartP, DataP, PageJ}}
    \cup {Vinyl(PageD, "buffer", <<Yield>>)}

(***************************************************************************)
(* State machine                                                           *)
(***************************************************************************)
\* nodes of the arena that were built by load: the roots
loads == Cardinality({t \in 1..Len(nodes) : nodes[t].parent = 0})

\* the build script wraps each layout it loads before it loads the
\* next: a layout loaded after the first is pending until wrap has cloned it
pending == Len(nodes) > 1 /\ nodes[Len(nodes)].parent = 0

NoStream == [made |-> FALSE, parent |-> 0, options |-> NoOptions]
NoResult == [n |-> 0, input |-> Vinyl(PageP, "null", <<>>),
             result |-> Result("none", Vinyl(PageP, "null", <<>>), FALSE, "", <<>>),
             disk |-> Disk0]

Init ==
    /\ globalOptions \in GlobalChoices
    /\ disk = Disk0
    /\ nodes = <<>>
    /\ stream = NoStream
    /\ out = <<>>
    /\ errors = <<>>
    /\ last = NoResult

\* the node a load returns joins the arena
Built(r) ==
    /\ r.ok
    /\ nodes' = Append(nodes, r.v)

\* this.push(file), this.emit('error', ...) and callback() of one call;
\* last keeps the call, what it gave and the files it ran against
Transformed(file, r) ==
    /\ last' = [n |-> last.n + 1, input |-> file, result |-> r, disk |-> disk]
    /\ nodes' = written(nodes, stream, r.steps)
    /\ out' = IF r.pushed THEN Append(out, r.file) ELSE out
    /\ errors' = IF r.error # "" THEN Append(errors, r.error) ELSE errors

\* GulpMustacheLayout.load(path, options); a load that throws builds nothing
Load(path, options) ==
    /\ ~stream.made
    /\ ~pending
    /\ loads < MaxDepth
    /\ Built(TemplateLoad(disk, 0, path, AssignOptions(globalOptions, options)))
    /\ UNCHANGED <<globalOptions, disk, stream, out, errors, last>>

\* outer.wrap(child): the chain built so far wraps the layout just loaded
Wrap(outer, child) ==
    /\ ~stream.made
    /\ pending
    /\ outer = Len(nodes) - 1
    /\ child = Len(nodes)
    /\ nodes' = Append(nodes, wrap(outer, nodes[child]))
    /\ UNCHANGED <<globalOptions, disk, stream, out, errors, last>>

\* node.done(options), on the innermost layout of the chain
Done(t, options) ==
    /\ ~stream.made
    /\ ~pending
    /\ t = Len(nodes)
    /\ stream' = [made |-> TRUE, parent |-> t,
                  options |-> AssignOptions(globalOptions, options)]
    /\ UNCHANGED <<globalOptions, disk, nodes, out, errors, last>>

\* stream._transform(file, encoding, callback)
Transform(file) ==
    /\ stream.made
    /\ last.n < MaxEntries
    /\ Transformed(file, transform(disk, nodes, stream, file))
    /\ UNCHANGED <<globalOptions, disk, stream>>

Next ==
    \/ \E c \in LoadCalls : Load(c.path, c.options)
    \/ \E outer \in 1..Len(nodes), child \in 1..Len(nodes) : Wrap(outer, child)
    \/ \E t \in 1..Len(nodes), options \in DoneOptions : Done(t, options)
    \/ \E file \in Entries : Transform(file)

Spec == Init /\ [][Next]_vars

(***************************************************************************)
(* The pipeline: a stream that is already made is given several entries,   *)
(* one after the other.                                                    *)
(***************************************************************************)
\* the plugin-wide options of the build scripts
PipeGlobal == CHOOSE g \in GlobalChoices : TRUE

\* layouts.main, and layouts.main.wrap(layouts.inner)
PipeChains ==
    {<<TemplateLoad(Disk0, 0, LayoutAM, AssignOptions(PipeGlobal, NoOptions)).v>>,
     <<TemplateLoad(Disk0, 0, LayoutAM, AssignOptions(PipeGlobal, NoOptions)).v,
       TemplateLoad(Disk0, 0, LayoutBM, AssignOptions(PipeGlobal, NoOptions)).v,
       wrap(1, TemplateLoad(Disk0, 0, LayoutBM, AssignOptions(PipeGlobal, NoOptions)).v)>>}

PipeBodies ==
    {<<Chr("h")>>,
     <<Chr("h"), PartialTag(<<"./", "q">>)>>,
     <<Chr("h"), PartialTag(<<"q">>)>>,
     <<Yield>>,
     <<VarTag(kX)>>}

PipeEntries ==
    {Vinyl(PageP, "null", <<>>), Vinyl(PageP, "stream", <<>>)}
    \cup {Vinyl(PageP, "buffer", b) : b \in PipeBodies}
    \cup {Vinyl(p, "buffer", <<Chr("h")>>) : p \in {PartP, PageD}}

InitPipe ==
    /\ globalOptions = PipeGlobal
    /\ disk = Disk0
    /\ nodes \in PipeChains
    /\ \E options \in DoneOptions :
          stream = [made |-> TRUE, parent |-> Len(nodes),
                    options |-> AssignOptions(globalOptions, options)]
    /\ out = <<>>
    /\ errors = <<>>
    /\ last = NoResult

\* the partial of the pages is rewritten while the stream is in use
PipeEdits == {[path |-> PartialQ, file |-> File(<<Chr("R")>>)]}

\* a file on disk is written, from outside the program
Edit(path, file) ==
    /\ path \in DOMAIN disk
    /\ disk[path] # file
    /\ disk' = [disk EXCEPT ![path] = file]
    /\ UNCHANGED <<globalOptions, nodes, stream, out, errors, last>>

\* stream._transform(file, encoding, callback), for the next entry piped in
Pipe(file) ==
    /\ stream.made
    /\ last.n < MaxPiped
    /\ Transformed(file, transform(disk, nodes, stream, file))
    /\ UNCHANGED <<globalOptions, disk, stream>>

NextPipe ==
    \/ \E file \in PipeEntries : Pipe(file)
    \/ \E e \in PipeEdits : Edit(e.path, e.file)

SpecPipe == InitPipe /\ [][NextPipe]_vars

(***************************************************************************)
(* The chain interface: load, wrap, done and reload in any order, on any   *)
(* node.  last keeps the latest load, wrap or reload and what it gave.     *)
(***************************************************************************)
ApiResult(outcome, t, child, err) ==
    [outcome |-> outcome, node |-> t, child |-> child, error |-> err]

ApiCalled(r) == last' = [n |-> last.n, input |-> last.input, result |-> r, disk |-> disk]

ChainLoads ==
    {[path |-> LayoutAM, options |-> NoOptions],
     [path |-> LayoutBM, options |-> NoOptions]}

\* GulpMustacheLayout.load(path, options)
LoadAny(path, options) ==
    /\ Len(nodes) < MaxNodes
    /\ Built(TemplateLoad(disk, 0, path, AssignOptions(globalOptions, options)))
    /\ ApiCalled(ApiResult("load", 0, 0, ""))
    /\ UNCHANGED <<globalOptions, disk, stream, out, errors>>

\* outer.wrap(child), for any two nodes, the same one twice included
WrapAny(outer, child) ==
    /\ Len(nodes) < MaxNodes
    /\ nodes' = Append(nodes, wrap(outer, nodes[child]))
    /\ ApiCalled(ApiResult("wrap", outer, child, ""))
    /\ UNCHANGED <<globalOptions, disk, stream, out, errors>>

\* t.done(): the stream made last is the one kept
DoneAny(t, options) ==
    /\ ~stream.made \/ stream.parent # t
    /\ stream' = [made |-> TRUE, parent |-> t,
                  options |-> AssignOptions(globalOptions, options)]
    /\ UNCHANGED <<globalOptions, disk, nodes, out, errors, last>>

\* t.reload(): the node is written in place; a throw goes to the caller
Reload(t) ==
    /\ nodes' = [nodes EXCEPT ![t] = reload(disk, nodes[t]).node]
    /\ ApiCalled(ApiResult("reload", t, 0, reload(disk, nodes[t]).err))
    /\ UNCHANGED <<globalOptions, disk, stream, out, errors>>

InitChain ==
    /\ globalOptions = PipeGlobal
    /\ disk = Disk0
    /\ nodes = <<>>
    /\ stream = NoStream
    /\ out = <<>>
    /\ errors = <<>>
    /\ last = NoResult

NextChain ==
    \/ \E c \in ChainLoads : LoadAny(c.path, c.options)
    \/ \E outer \in 1..Len(nodes), child \in 1..Len(nodes) : WrapAny(outer, child)
    \/ \E t \in 1..Len(nodes) : DoneAny(t, NoOptions)
    \/ \E t \in 1..Len(nodes) : Reload(t)

SpecChain == InitChain /\ [][NextChain]_vars

(***************************************************************************)
(* Reloading: the files of the outer layout are rewritten, made unreadable *)
(* or broken between the reloads of the nodes of a chain.                  *)
(***************************************************************************)
ReloadEdits ==
    {[path |-> LayoutAM, file |-> File(<<Chr("N"), Yield>>)],
     [path |-> LayoutAM, file |-> Denied],
     [path |-> LayoutAM, file |-> Disk0[LayoutAM]],
     [path |-> varLoaderPath(LayoutAM), file |-> File(<<KV(kX, "7")>>)],
     [path |-> varLoaderPath(LayoutAM), file |-> File(<<Junk>>)],
     [path |-> varLoaderPath(LayoutAM), file |-> Denied],
     [path |-> varLoaderPath(LayoutAM), file |-> Disk0[varLoaderPath(LayoutAM)]]}

InitReload ==
    /\ globalOptions = PipeGlobal
    /\ disk = Disk0
    /\ nodes \in PipeChains
    /\ stream = NoStream
    /\ out = <<>>
    /\ errors = <<>>
    /\ last = NoResult

NextReload ==
    \/ \E e \in ReloadEdits : Edit(e.path, e.file)
    \/ \E t \in 1..Len(nodes) : Reload(t)

SpecReload == InitReload /\ [][NextReload]_vars

(***************************************************************************)
(* Vocabulary of the properties                                            *)
(***************************************************************************)
\* the handles from t outward, t first
RECURSIVE ancestors(_, _)
ancestors(arena, t) ==
    IF t = 0 THEN <<>> ELSE <<t>> \o ancestors(arena, arena[t].parent)

\* this step is a call of _transform
Called == last'.n = last.n + 1

\* the entry gets past the null, stream, partial and extension checks
Rendering(file) ==
    ~isNull(file) /\ ~isStream(file) /\ ~isPartial(file) /\ ~notMustache(file)

\* the body of the entry references the yield partial
HasYield(text) == \E i \in 1..Len(text) : text[i] = Yield

\* a partial other than yield, referenced before any yield, cannot be read
EarlierPartialFails(file) ==
    \E i \in 1..Len(file.contents) :
        /\ file.contents[i].k = "partial"
        /\ file.contents[i].a # YIELD
        /\ \A j \in 1..(i - 1) : file.contents[j] # Yield
        /\ ~readFileSync(disk, resolvePartial(file.path.dir, file.contents[i].a)).ok

(***************************************************************************)
(* C1: a render that succeeds performs exactly n+1 steps for a chain of n  *)
(* ancestors: the leaf first with no wrapped content, then the ancestors   *)
(* from the stream's parent outward, each one wrapped around the output of *)
(* the step before it; the entry's contents are the output of the last     *)
(* step.  The steps of a render that fails are a prefix of that order.     *)
(***************************************************************************)
C1_StepOrder ==
    LET st  == last.result.steps
        anc == ancestors(nodes, stream.parent)
    IN  /\ \A i \in 1..Len(st) :
              IF i = 1
              THEN st[i].node = 0 /\ st[i].wrapped = None
              ELSE /\ i - 1 <= Len(anc)
                   /\ st[i].node = anc[i - 1]
                   /\ st[i - 1].ok
                   /\ st[i].wrapped = Some(st[i - 1].v)
        /\ last.result.outcome = "rendered" =>
              /\ Len(anc) >= 1
              /\ Len(st) = Len(anc) + 1
              /\ st[Len(st)].ok
              /\ last.result.pushed
              /\ last.result.file.contents = st[Len(st)].v

C1_Witness ==
    /\ last.result.outcome = "rendered"
    /\ Len(last.result.steps) = 3
    /\ last.result.steps[1].v # <<>>
    /\ last.result.steps[2].v # last.result.steps[1].v
    /\ last.result.steps[3].v # last.result.steps[2].v

(***************************************************************************)
(* C2 as stated: an entry whose body references yield fails with the       *)
(* missing-yield error at the leaf step, and nothing is emitted for it.    *)
(***************************************************************************)
C2_Original ==
    [][(Called /\ Rendering(last'.input) /\ HasYield(last'.input.contents)) =>
          /\ last'.result.outcome = "failed"
          /\ last'.result.error = "NoYield"
          /\ Len(last'.result.steps) = 1
          /\ last'.result.steps[1].node = 0
          /\ last'.result.steps[1].wrapped = None
          /\ out' = out]_vars

(***************************************************************************)
(* C2 amended: an entry whose body references yield always fails, no       *)
(* ancestor step runs and nothing is emitted for it; the error is the      *)
(* missing-yield error of the leaf step (rendered with no wrapped          *)
(* content) unless the leaf could not be constructed or a partial          *)
(* referenced earlier in the body could not be read.                       *)
(***************************************************************************)
C2_LeafYieldFails ==
    [][(Called /\ Rendering(last'.input) /\ HasYield(last'.input.contents)) =>
          LET r == last'.result
          IN  /\ r.outcome = "failed"
              /\ ~r.pushed
              /\ out' = out
              /\ errors' = Append(errors, r.error)
              /\ Len(r.steps) <= 1
              /\ Len(r.steps) = 0 <=>
                    ~FromVinyl(disk, stream.parent, last'.input, stream.options).ok
              /\ Len(r.steps) = 1 =>
                    /\ r.steps[1].node = 0
                    /\ r.steps[1].wrapped = None
                    /\ IF EarlierPartialFails(last'.input)
                       THEN r.error = "RenderError"
                       ELSE r.error = "NoYield"]_vars

C2_Witness ==
    /\ last.n > 0
    /\ Rendering(last.input)
    /\ HasYield(last.input.contents)
    /\ last.result.error = "NoYield"
    /\ Len(last.result.steps) = 1
    /\ errors # <<>>

(***************************************************************************)
(* C3: in a pipeline render the missing-yield error occurs only at the     *)
(* leaf step: no ancestor step fails with it, whatever the output of the   *)
(* step before it, the empty string included.                              *)
(***************************************************************************)
C3_YieldOnlyMissingAtLeaf ==
    \A i \in 2..Len(last.result.steps) : last.result.steps[i].err # "NoYield"

(***************************************************************************)
(* Views: the effective bindings of every node of the arena, and those the *)
(* steps of the latest render were expanded against, each with the node    *)
(* and the handles of the node's ancestors, innermost first.               *)
(***************************************************************************)
leafOf(file) == FromVinyl(disk, stream.parent, file, stream.options).v

stepNode(step) == IF step.node = 0 THEN leafOf(last.input) ELSE nodes[step.node]

Views ==
    {[t |-> nodes[h], view |-> effectiveVars(nodes, nodes[h]),
      anc |-> ancestors(nodes, nodes[h].parent)] : h \in 1..Len(nodes)}
    \cup {[t |-> stepNode(last.result.steps[i]), view |-> last.result.steps[i].view,
           anc |-> ancestors(nodes, stepNode(last.result.steps[i]).parent)] :
             i \in 1..Len(last.result.steps)}

enabledScope(p) == p.effectiveOptions.scopeName.st # "null"

\* the key the documentation gives the scope of p: the scope name if it is
\* a string, else the file name without directory and extension
documentedKey(p) ==
    IF p.effectiveOptions.scopeName.st = "str"
    THEN p.effectiveOptions.scopeName.v
    ELSE p.path.name

\* among the ancestors anc, no enabled one farther out than the i-th has its key
outermostOfKey(anc, i) ==
    \A j \in (i + 1)..Len(anc) :
        ~(enabledScope(nodes[anc[j]])
          /\ documentedKey(nodes[anc[j]]) = documentedKey(nodes[anc[i]]))

(***************************************************************************)
(* C4 as stated: every ancestor whose scope is not disabled is exposed     *)
(* under its scope name, or under its file name when no name is set.       *)
(***************************************************************************)
C4_Original ==
    \A w \in Views : \A i \in 1..Len(w.anc) :
        enabledScope(nodes[w.anc[i]]) =>
            /\ documentedKey(nodes[w.anc[i]]) \in DOMAIN w.view
            /\ w.view[documentedKey(nodes[w.anc[i]])] = Obj(mergedVars(nodes[w.anc[i]]))

(***************************************************************************)
(* C4 amended: an ancestor whose scope is not disabled is exposed under    *)
(* its scope name, or under its file name (directory and extension         *)
(* stripped) when no name is set, unless an ancestor farther out has the   *)
(* same key: then the key holds the variables of the outermost of them.    *)
(***************************************************************************)
C4_ScopeKey ==
    \A w \in Views : \A i \in 1..Len(w.anc) :
        (enabledScope(nodes[w.anc[i]]) /\ outermostOfKey(w.anc, i)) =>
            /\ documentedKey(nodes[w.anc[i]]) \in DOMAIN w.view
            /\ w.view[documentedKey(nodes[w.anc[i]])] = Obj(mergedVars(nodes[w.anc[i]]))

C4_Witness ==
    \E w \in Views : \E i, j \in 1..Len(w.anc) :
        /\ nodes[w.anc[i]].effectiveOptions.scopeName.st = "absent"
        /\ nodes[w.anc[j]].effectiveOptions.scopeName.st = "str"
        /\ w.view[nodes[w.anc[i]].path.name] = Obj(mergedVars(nodes[w.anc[i]]))
        /\ w.view[nodes[w.anc[j]].effectiveOptions.scopeName.v]
              = Obj(mergedVars(nodes[w.anc[j]]))
        /\ mergedVars(nodes[w.anc[i]]) # mergedVars(nodes[w.anc[j]])

(***************************************************************************)
(* C5 as stated: no scope of a view comes from an ancestor whose scope is  *)
(* disabled, and in a chain with such an ancestor every other ancestor is  *)
(* exposed under its own key.                                              *)
(***************************************************************************)
C5_Original ==
    \A w \in Views :
        (\E i \in 1..Len(w.anc) : ~enabledScope(nodes[w.anc[i]])) =>
            /\ \A k \in DOMAIN w.view :
                  w.view[k].isObj =>
                      \E j \in 1..Len(w.anc) :
                          /\ enabledScope(nodes[w.anc[j]])
                          /\ documentedKey(nodes[w.anc[j]]) = k
                          /\ w.view[k].obj = mergedVars(nodes[w.anc[j]])
            /\ \A j \in 1..Len(w.anc) :
                  enabledScope(nodes[w.anc[j]]) =>
                      /\ documentedKey(nodes[w.anc[j]]) \in DOMAIN w.view
                      /\ w.view[documentedKey(nodes[w.anc[j]])]
                            = Obj(mergedVars(nodes[w.anc[j]]))

(***************************************************************************)
(* C5 amended: no scope of a view comes from an ancestor whose scope is    *)
(* disabled, and in a chain with such an ancestor every other ancestor is  *)
(* exposed under its own key unless an ancestor farther out has the same   *)
(* key.                                                                    *)
(***************************************************************************)
C5_DisabledScope ==
    \A w \in Views :
        (\E i \in 1..Len(w.anc) : ~enabledScope(nodes[w.anc[i]])) =>
            /\ \A k \in DOMAIN w.view :
                  w.view[k].isObj =>
                      \E j \in 1..Len(w.anc) :
                          /\ enabledScope(nodes[w.anc[j]])
                          /\ documentedKey(nodes[w.anc[j]]) = k
                          /\ w.view[k].obj = mergedVars(nodes[w.anc[j]])
            /\ \A j \in 1..Len(w.anc) :
                  (enabledScope(nodes[w.anc[j]]) /\ outermostOfKey(w.anc, j)) =>
                      /\ documentedKey(nodes[w.anc[j]]) \in DOMAIN w.view
                      /\ w.view[documentedKey(nodes[w.anc[j]])]
                            = Obj(mergedVars(nodes[w.anc[j]]))

C5_Witness ==
    \E w \in Views : \E i, j \in 1..Len(w.anc) :
        /\ ~enabledScope(nodes[w.anc[i]])
        /\ enabledScope(nodes[w.anc[j]])
        /\ w.view[documentedKey(nodes[w.anc[j]])] = Obj(mergedVars(nodes[w.anc[j]]))
        /\ \A k \in DOMAIN w.view :
              w.view[k].isObj => w.view[k].obj # mergedVars(nodes[w.anc[i]])

\* the steps of the latest render, as views: node, bindings, ancestors
stepView(i) ==
    [t |-> stepNode(last.result.steps[i]), view |-> last.result.steps[i].view,
     anc |-> ancestors(nodes, stepNode(last.result.steps[i]).parent)]

\* key k of the view w holds one of the variables of the node itself
ownEntry(w, k) == k \in DOMAIN mergedVars(w.t) /\ w.view[k] = Str(mergedVars(w.t)[k])

\* key k of the view w holds the scope of one of the node's ancestors
scopeEntry(w, k) ==
    \E j \in 1..Len(w.anc) :
        /\ enabledScope(nodes[w.anc[j]])
        /\ documentedKey(nodes[w.anc[j]]) = k
        /\ w.view[k] = Obj(mergedVars(nodes[w.anc[j]]))

collides(w, k) ==
    \E j \in 1..Len(w.anc) :
        enabledScope(nodes[w.anc[j]]) /\ documentedKey(nodes[w.anc[j]]) = k

(***************************************************************************)
(* C7 as stated: a key a node declares itself keeps the node's own value   *)
(* when an ancestor's scope has the same key.                              *)
(***************************************************************************)
C7_Original ==
    \A i \in 1..Len(last.result.steps) :
        \A k \in DOMAIN mergedVars(stepView(i).t) :
            collides(stepView(i), k) => ownEntry(stepView(i), k)

(***************************************************************************)
(* C7 amended: a key a node declares itself holds the scope of the         *)
(* outermost ancestor whose scope key it is, and the node's own value only *)
(* when no ancestor's scope has that key.                                  *)
(***************************************************************************)
C7_ScopeOverridesOwn ==
    \A i \in 1..Len(last.result.steps) :
        \A k \in DOMAIN mergedVars(stepView(i).t) :
            IF collides(stepView(i), k)
            THEN \E j \in 1..Len(stepView(i).anc) :
                    /\ enabledScope(nodes[stepView(i).anc[j]])
                    /\ documentedKey(nodes[stepView(i).anc[j]]) = k
                    /\ outermostOfKey(stepView(i).anc, j)
                    /\ stepView(i).view[k] = Obj(mergedVars(nodes[stepView(i).anc[j]]))
            ELSE ownEntry(stepView(i), k)

C7_Witness ==
    \E i \in 1..Len(last.result.steps) :
        \E k \in DOMAIN mergedVars(stepView(i).t) :
            /\ collides(stepView(i), k)
            /\ stepView(i).view[k].isObj
            /\ \E k2 \in DOMAIN mergedVars(stepView(i).t) : ownEntry(stepView(i), k2)

C9_Original ==
    [][(Called /\ (last'.input.kind = "null" \/ last'.input.path.ext # MUSTACHE)) =>
          /\ last'.result.steps = << >>
          /\ last'.result.file = last'.input
          /\ out' = Append(out, last'.input)]_vars

(***************************************************************************)
(* C9 amended: a null entry is emitted downstream with path and contents   *)
(* unchanged; an entry with contents whose extension is not .mustache is   *)
(* not rendered and not changed, but it is not emitted either: it is       *)
(* dropped, without an error.                                              *)
(***************************************************************************)
C9_PassThrough ==
    [][Called =>
          /\ last'.input.kind = "null" =>
                /\ last'.result.steps = << >>
                /\ last'.result.file = last'.input
                /\ out' = Append(out, last'.input)
                /\ errors' = errors
          /\ (last'.input.kind = "buffer" /\ last'.input.path.ext # MUSTACHE) =>
                /\ last'.result.steps = << >>
                /\ last'.result.file = last'.input
                /\ out' = out
                /\ errors' = errors]_vars

C9_Witness ==
    /\ last.n > 0
    /\ last.input.kind = "buffer"
    /\ last.input.path = DataP
    /\ last.result.file = last.input
    /\ ~last.result.pushed
    /\ out = << >>

(***************************************************************************)
(* C10: an entry whose contents are a live stream gets the unsupported     *)
(* input error; it is not rendered, not emitted and not changed.           *)
(***************************************************************************)
C10_StreamRejected ==
    [][(Called /\ last'.input.kind = "stream") =>
          /\ last'.result.outcome = "stream"
          /\ last'.result.error = "Stream"
          /\ errors' = Append(errors, "Stream")
          /\ last'.result.steps = << >>
          /\ ~last'.result.pushed
          /\ last'.result.file = last'.input
          /\ out' = out]_vars

C10_Witness ==
    /\ last.n > 0
    /\ last.input.kind = "stream"
    /\ last.input.path = PageP
    /\ errors = <<"Stream">>
    /\ out = << >>

\* option by option, merged holds the per-call value where one was given and
\* the plugin-wide value where none was
overrides(call, merged) ==
    /\ merged.vars = IF call.vars.set THEN call.vars ELSE globalOptions.vars
    /\ merged.outputName =
          IF call.outputName.set THEN call.outputName ELSE globalOptions.outputName
    /\ merged.outputExtension =
          IF call.outputExtension.set THEN call.outputExtension
          ELSE globalOptions.outputExtension

(***************************************************************************)
(* C11: a rendered entry is emitted in its original directory, under the   *)
(* configured output name (default: its own name without extension) and    *)
(* the configured output extension (default .htm), with the output of the  *)
(* outermost step as contents; the options of a stream are the per-call    *)
(* options of done over the plugin-wide ones.                              *)
(***************************************************************************)
C11_OutputPath ==
    [][/\ (Called /\ last'.result.outcome = "rendered") =>
             /\ last'.result.file.path.dir = last'.input.path.dir
             /\ last'.result.file.path.name =
                   IF stream.options.outputName.set
                   THEN stream.options.outputName.v
                   ELSE last'.input.path.name
             /\ last'.result.file.path.ext =
                   IF stream.options.outputExtension.set
                   THEN stream.options.outputExtension.v
                   ELSE ".htm"
             /\ last'.result.file.contents =
                   last'.result.steps[Len(last'.result.steps)].v
             /\ out' = Append(out, last'.result.file)
       /\ (~stream.made /\ stream'.made) =>
             \E call \in DoneOptions : overrides(call, stream'.options)]_vars

C11_Witness ==
    /\ last.result.outcome = "rendered"
    /\ last.input.path = PageP
    /\ last.result.file.path = P("a", <<"o">>, ".html")
    /\ last.result.file.contents # last.input.contents
    /\ out = <<last.result.file>>
    /\ globalOptions.vars.set
    /\ stream.options.vars # globalOptions.vars

(***************************************************************************)
(* C12: a render that fails at any step reports exactly one error, emits   *)
(* nothing, leaves the entry's path and contents alone and leaves the      *)
(* entries emitted before it in place; it changes neither the chain nor    *)
(* the stream, and the entry that comes after a failure gets what the      *)
(* stream gives that entry: one that renders is emitted after the earlier  *)
(* ones without touching the errors reported so far.                       *)
(***************************************************************************)
C12_FailureIsolation ==
    [][/\ (Called /\ last'.result.outcome = "failed") =>
             /\ last'.result.error # ""
             /\ errors' = Append(errors, last'.result.error)
             /\ out' = out
             /\ ~last'.result.pushed
             /\ last'.result.file = last'.input
             /\ nodes' = nodes
             /\ stream' = stream
       /\ (Called /\ last'.result.outcome = "rendered") =>
             /\ errors' = errors
             /\ out' = Append(out, last'.result.file)
       /\ (Called /\ last.result.outcome = "failed") =>
             last'.result = transform(disk, nodes, stream, last'.input)]_vars

C12_Witness ==
    /\ last.n = 2
    /\ last.result.outcome = "rendered"
    /\ out = <<last.result.file>>
    /\ errors = <<"NoYield">>

\* the files a render of the entry reads: its variable file and the
\* partials its body names
filesRead(file) ==
    {varLoaderPath(file.path)}
    \cup {resolvePartial(file.path.dir, file.contents[i].a) :
            i \in {j \in 1..Len(file.contents) :
                      file.contents[j].k = "partial" /\ file.contents[j].a # YIELD}}

\* path holds in d what it holds in e
sameFile(d, e, path) ==
    IF path \in DOMAIN d
    THEN path \in DOMAIN e /\ d[path] = e[path]
    ELSE path \notin DOMAIN e

(***************************************************************************)
(* C13 as stated: an entry with the path and contents of the entry before  *)
(* it, the chain being the same, gets the same output contents and output  *)
(* path; a render changes no field of any node of the chain.               *)
(***************************************************************************)
C13_Original ==
    [][Called =>
          /\ nodes' = nodes
          /\ (last.n >= 1 /\ last'.input = last.input) =>
                /\ last'.result.outcome = last.result.outcome
                /\ last'.result.file = last.result.file]_vars

(***************************************************************************)
(* C13 amended: an entry with the path and contents of the entry before    *)
(* it, the chain being the same and the files the render reads (the        *)
(* entry's variable file and the partials it names) being as they were,    *)
(* gets the same output contents and output path; a render changes no      *)
(* field of any node of the chain, nor the stream.                         *)
(***************************************************************************)
C13_Idempotence ==
    [][Called =>
          /\ nodes' = nodes
          /\ stream' = stream
          /\ (/\ last.n >= 1
              /\ last'.input = last.input
              /\ \A path \in filesRead(last.input) : sameFile(disk, last.disk, path)) =>
                /\ last'.result.outcome = last.result.outcome
                /\ last'.result.file = last.result.file
                /\ last'.result.error = last.result.error]_vars

C13_Witness ==
    /\ last.n = 2
    /\ last.result.outcome = "rendered"
    /\ Len(last.result.steps) = 3
    /\ out = <<last.result.file, last.result.file>>
    /\ last.disk = disk
    /\ last.result.file.contents # last.input.contents
    /\ \E t \in 1..Len(nodes) : mergedVars(nodes[t]) # nodes[t].loadedVars

\* the file the documentation reads the partial `name` of a template in
\* `dir` from
documentedPartial(dir, name) ==
    IF StartsWith(name, "./") THEN P(dir, Tail(name), MUSTACHE) ELSE P(Cwd, name, MUSTACHE)

(***************************************************************************)
(* C14: a partial whose name begins with ./ is read from the directory of  *)
(* the template that asks for it, any other partial from the working       *)
(* directory of the process, with .mustache appended.  Stated for the      *)
(* entries made of a text and one partial: the leaf step puts out the text *)
(* followed by the contents of that file.                                  *)
(***************************************************************************)
C14_PartialResolution ==
    (/\ last.n > 0
     /\ Rendering(last.input)
     /\ Len(last.input.contents) = 2
     /\ last.input.contents[2].k = "partial"
     /\ last.input.contents[2].a # YIELD
     /\ Len(last.result.steps) >= 1) =>
        /\ last.result.steps[1].ok
        /\ last.result.steps[1].v =
              <<last.input.contents[1]>>
              \o readFileSync(disk, documentedPartial(last.input.path.dir,
                                                      last.input.contents[2].a)).text

C16_Original ==
    [][(/\ Called
        /\ last'.input.kind # "null"
        /\ \/ StartsWith(last'.input.path.name, "_")
           \/ last'.input.path.ext # MUSTACHE) =>
          /\ last'.result.outcome = "skipped"
          /\ last'.result.error = ""
          /\ errors' = errors]_vars

(***************************************************************************)
(* C16 amended: the stream check comes before the skip checks.  An entry   *)
(* whose content is a live stream gets the unsupported-input error         *)
(* whatever its base name and extension; an entry is skipped without an    *)
(* error for its underscore or its extension only when it has contents.    *)
(***************************************************************************)
C16_StreamBeforeSkip ==
    [][Called =>
          /\ (/\ last'.input.kind = "stream"
              /\ \/ StartsWith(last'.input.path.name, "_")
                 \/ last'.input.path.ext # MUSTACHE) =>
                /\ last'.result.outcome = "stream"
                /\ errors' = Append(errors, "Stream")
          /\ (/\ last'.input.kind = "buffer"
              /\ \/ StartsWith(last'.input.path.name, "_")
                 \/ last'.input.path.ext # MUSTACHE) =>
                /\ last'.result.outcome = "skipped"
                /\ errors' = errors
          /\ last'.result.error = "Stream" => last'.input.kind = "stream"]_vars

C16_Witness ==
    /\ last.n > 0
    /\ last.input.kind = "stream"
    /\ last.input.path = PartP
    /\ last.result.outcome = "stream"
    /\ errors = <<"Stream">>

\* following parent from t ends at null within k hops
RECURSIVE climbs(_, _, _)
climbs(arena, t, k) ==
    IF t = 0 THEN TRUE
    ELSE IF k = 0 THEN FALSE
    ELSE climbs(arena, arena[t].parent, k - 1)

\* every parent is a node of the arena and every parent chain ends
Acyclic(arena) ==
    \A t \in 1..Len(arena) :
        /\ arena[t].parent \in 0..Len(arena)
        /\ climbs(arena, t, Len(arena))

(***************************************************************************)
(* C15: whatever load, wrap, done and reload calls are made, every parent  *)
(* chain is finite and acyclic; outer.wrap(child) leaves every node there  *)
(* is as it was and adds one node that has the contents, path, loaded vars *)
(* and options of child and outer as parent, whatever parent child has.    *)
(***************************************************************************)
C15_WrapClones ==
    [][/\ Acyclic(nodes')
       /\ (Len(nodes') = Len(nodes) + 1 /\ last'.result.outcome = "wrap") =>
             /\ SubSeq(nodes', 1, Len(nodes)) = nodes
             /\ nodes'[Len(nodes')].parent = last'.result.node
             /\ nodes'[Len(nodes')].templateContents =
                   nodes[last'.result.child].templateContents
             /\ nodes'[Len(nodes')].path = nodes[last'.result.child].path
             /\ nodes'[Len(nodes')].loadedVars = nodes[last'.result.child].loadedVars
             /\ nodes'[Len(nodes')].effectiveOptions =
                   nodes[last'.result.child].effectiveOptions
       /\ Len(nodes') = Len(nodes) => nodes' = nodes]_vars

C15_Witness ==
    /\ last.result.outcome = "wrap"
    /\ Len(nodes) = 3
    /\ nodes[3].parent = last.result.node
    /\ nodes[last.result.child].parent # 0
    /\ nodes[last.result.child].parent # nodes[3].parent
    /\ nodes[3].path = nodes[last.result.child].path

\* what the files of node t hold now: its contents and its variables
freshContents(t) == readFileSync(disk, nodes[t].path)
freshVars(t) == readFileSync(disk, varLoaderPath(nodes[t].path))

\* this step is a call of reload
ReloadCalled == last'.result.outcome = "reload" /\ disk' = disk

(***************************************************************************)
(* C17 as stated: a reload that succeeds replaces contents and loaded vars *)
(* by what is read from the path and changes no other node; a reload that  *)
(* fails leaves contents and loaded vars as they were.                     *)
(***************************************************************************)
C17_Original ==
    [][ReloadCalled =>
          IF last'.result.error = ""
          THEN /\ nodes'[last'.result.node].templateContents =
                     freshContents(last'.result.node).text
               /\ \A t \in 1..Len(nodes) : t # last'.result.node => nodes'[t] = nodes[t]
          ELSE /\ nodes'[last'.result.node].templateContents =
                     nodes[last'.result.node].templateContents
               /\ nodes'[last'.result.node].loadedVars =
                     nodes[last'.result.node].loadedVars]_vars

(***************************************************************************)
(* C17 amended: a reload that succeeds replaces contents and loaded vars   *)
(* by what is read from the path and changes no other node.  A reload that *)
(* fails because the template file cannot be read leaves both as they      *)
(* were; one that fails because the variable file cannot be read or parsed *)
(* has already replaced the contents and leaves only the loaded vars as    *)
(* they were.  No other node or field is changed in any case.              *)
(***************************************************************************)
C17_ReloadInOrder ==
    [][ReloadCalled =>
          /\ Len(nodes') = Len(nodes)
          /\ \A t \in 1..Len(nodes) : t # last'.result.node => nodes'[t] = nodes[t]
          /\ nodes'[last'.result.node].path = nodes[last'.result.node].path
          /\ nodes'[last'.result.node].parent = nodes[last'.result.node].parent
          /\ nodes'[last'.result.node].effectiveOptions =
                nodes[last'.result.node].effectiveOptions
          /\ nodes'[last'.result.node].templateContents =
                IF freshContents(last'.result.node).ok
                THEN freshContents(last'.result.node).text
                ELSE nodes[last'.result.node].templateContents
          /\ nodes'[last'.result.node].loadedVars =
                IF last'.result.error # "" THEN nodes[last'.result.node].loadedVars
                ELSE IF freshVars(last'.result.node).ok
                     THEN varLoaderParser(freshVars(last'.result.node).text).v
                     ELSE EmptyObj
          /\ last'.result.error = "" <=>
                /\ freshContents(last'.result.node).ok
                /\ \/ freshVars(last'.result.node).code = "ENOENT"
                   \/ /\ freshVars(last'.result.node).ok
                      /\ varLoaderParser(freshVars(last'.result.node).text).ok]_vars

C17_Witness ==
    /\ last.result.outcome = "reload"
    /\ last.result.error = "VarReader"
    /\ last.disk = disk
    /\ nodes[last.result.node].templateContents = disk[LayoutAM].text
    /\ nodes[last.result.node].templateContents # Disk0[LayoutAM].text
    /\ nodes[last.result.node].loadedVars = varLoaderParser(Disk0[varLoaderPath(LayoutAM)].text).v

====
